---- MODULE Spec2Model ----
(***************************************************************************)
(* Lifecycle and branch-gate control of the two pipeline controllers of    *)
(* the repository:                                                         *)
(*   GStreamerController     (gstreamer_controller.py, variables gc_..)    *)
(*   GStreamerPreviewDetect  (gstreamer_preview_detect.py, variables pd_..)*)
(* Threads: the caller (UI) thread issuing lifecycle calls, a caller       *)
(* context issuing detection toggles, and the GLib main-loop threads the   *)
(* controller starts.  A GLib thread is either the one the controller      *)
(* still references ("cur") or one it has lost its reference to while the  *)
(* thread is alive ("orphan").  Pipelines, loops and threads that are dead *)
(* and unreferenced are not part of the state.                             *)
(***************************************************************************)
EXTENDS Integers, Sequences, FiniteSets, TLC

\* ---------------------------------------------------------------- bounds
\* pipelines that may be live (built and not garbage) at once
MaxPipes == 2
\* GLib threads that may be alive at once
MaxThreads == 2
\* warm-up timers that may be pending at once
MaxTimers == 2
\* idle work items that may be pending at once
MaxIdle == 2

\* ------------------------------------------------------- common helpers
MsgTypes == {"ERROR", "WARNING", "STATE_CHANGED", "EOS"}

\* a handler that would stop on a warning as well
StopMsgs_AndWarning == {"ERROR", "WARNING", "EOS"}

\* the message types on which _on_bus_message stops the preview
StopMsgs == {"ERROR", "EOS"}

NoPipe == [st |-> "none"]

\* Thread.is_alive of the referenced thread
IsAlive(th) == th \in {"started", "looping", "quitting"}

\* a quit() that never reaches the loop
LoopQuit_Lost(th) == th

\* g_main_loop_quit on the referenced loop: it only has a lasting effect on a
\* loop that is inside run(); run() sets is_running again when entered later
LoopQuit(th) == IF th = "looping" THEN "quitting" ELSE th

\* Thread.join(timeout=2.0) from another thread: the joined thread ends within
\* the timeout exactly when its loop has been told to quit while running
JoinTimeout(th) == IF th = "quitting" THEN "exited" ELSE th

\* a thread whose reference is dropped while nothing has told its loop to
\* quit: it runs (or is about to run) its loop for good, as an orphan
Orphaned(orphans, th) ==
  IF th \in {"started", "looping"} THEN orphans + 1 ELSE orphans

AliveCount(th, orphans) == (IF IsAlive(th) THEN 1 ELSE 0) + orphans

\* which controller class the process instantiates
VARIABLE ctl

\* a caller that runs the script build, start, stop, build, start, stop and
\* notes the controller's state after each call (cy_pos = 0: no script)
VARIABLES
  cy_pos,                \* the call of the script that comes next
  cy_obs                 \* the states noted so far, one per completed call

cyVars == <<cy_pos, cy_obs>>

\* the control panel of main_pyside_Gst.py (ui_pc = "none": no panel)
VARIABLES
  ui_pc,                 \* "startup", "ready" or "exited"
  ui_preview,            \* btn_preview.text()
  ui_detect,             \* btn_detect.text()
  ui_detect_enabled,     \* btn_detect.isEnabled()
  ui_status              \* status_label.text(), without its prefix

uiVars == <<ui_pc, ui_preview, ui_detect, ui_detect_enabled, ui_status>>

\* YOLODetectorNMS.postprocess at work on one output tensor (pp_n = 0 and no
\* row: no detector)
VARIABLES
  pp_thr,                \* self.conf_threshold
  pp_row,                \* pred: the row of the iteration just done
  pp_n,                  \* rows iterated so far
  pp_out,                \* detections
  pp_in                  \* the rows iterated so far, in order (kept only by
                         \* the run over whole tensors)

ppVars == <<pp_thr, pp_row, pp_n, pp_out, pp_in>>

\* frames in the queues of the graph described by the pipeline string
VARIABLES
  q_buf,                 \* per queue element: the frames it holds, oldest first
  q_held,                \* per queue element: the frame its streaming thread
                         \* has taken out and is pushing downstream (0: none)
  q_next,                \* number of the next frame out of the tee
  q_sel,                 \* active output of det_sel
  q_stalled,             \* sinks whose consumer takes no frame
  q_closed,              \* valves with drop=true
  q_blocked              \* the tee is blocked in a push

qVars == <<q_buf, q_held, q_next, q_sel, q_stalled, q_closed, q_blocked>>

\* the detection worker, the slot it publishes into and the reader of the
\* slot (the slot is self._detections; worker and reader are the parts the
\* controller leaves as stubs)
VARIABLES
  w_running,             \* the running flag the worker observes
  w_pc,                  \* the worker: "top", "detect", "check", "publish", "exited"
  w_local,               \* the DetectionSet detect() returned, inference space
  w_slot,                \* self._detections
  w_last,                \* the DetectionSet of the last completed publish
  w_read,                \* what the draw callback read last
  w_stop,                \* stop: "none", "joining", "returned"
  w_seen                 \* where the worker was when stop was issued

wVars == <<w_running, w_pc, w_local, w_slot, w_last, w_read, w_stop, w_seen>>

\* whether an enable request has been scheduled since the present
\* GStreamerPreviewDetect pipeline was built (kept for the restart scenario)
VARIABLE st_asked

stVars == <<st_asked>>

\* a step of a run without script, panel, detector, frames and worker
Unscripted == UNCHANGED <<cyVars, uiVars, ppVars, qVars, wVars, stVars>>

\* what a step of the script leaves alone, and what a step of the panel does
OffScript == UNCHANGED <<uiVars, ppVars, qVars, wVars, stVars>>

OffPanel == UNCHANGED <<cyVars, ppVars, qVars, wVars, stVars>>

\* what a step of the detector leaves alone
OffDetector == UNCHANGED <<cyVars, uiVars, qVars, wVars, stVars>>

\* what a step of a frame leaves alone
OffStream == UNCHANGED <<cyVars, uiVars, ppVars, wVars, stVars>>

\* what a step of the restart scenario leaves alone
OffRestart == UNCHANGED <<cyVars, uiVars, ppVars, qVars, wVars>>

\* what a step of the worker, the reader or stop leaves alone
OffWorker == UNCHANGED <<cyVars, uiVars, ppVars, qVars, stVars>>

\* ================================================================== GC
\* GStreamerController
VARIABLES
  gc_names,              \* the element names get_by_name finds in the built graph
  gc_pipe,               \* self.pipeline: NoPipe, or its state and valve properties
  gc_leaked,             \* replaced pipelines that are not in NULL
  gc_thread,             \* self.main_loop / self.glib_thread: "none" or the thread's state
  gc_orphans,            \* alive GLib threads the controller no longer references
  gc_running,            \* self._running
  gc_detection_enabled,  \* self._detection_enabled
  gc_detections,         \* self._detections
  gc_timers,             \* pending GLib.timeout_add(500, ...) sources
  gc_pcL,                \* position of the caller thread inside start_preview
  gc_pcD,                \* position of the toggling caller inside start/stop_detection
  gc_ev                  \* the step just taken: operation, thread, effects

gcVars == <<gc_names, gc_pipe, gc_leaked, gc_thread, gc_orphans, gc_running,
            gc_detection_enabled, gc_detections, gc_timers, gc_pcL, gc_pcD,
            gc_ev>>

\* GStreamerPreviewDetect
VARIABLES
  pd_names,              \* the element names get_by_name finds in the built graph
  pd_pipe,               \* self.pipeline: NoPipe, or its state and element properties
  pd_main_loop,          \* self.main_loop is not None
  pd_thread,             \* self._glib_thread: "none" or the thread's state
  pd_orphans,            \* alive GLib threads the controller no longer references
  pd_running,            \* self._running
  pd_detection_enabled,  \* self._detection_enabled
  pd_idle,               \* pending GLib.idle_add sources, oldest first
  pd_pcL,                \* position of the caller thread inside start
  pd_ev                  \* the step just taken: operation, thread, effects

pdVars == <<pd_names, pd_pipe, pd_main_loop, pd_thread, pd_orphans, pd_running,
            pd_detection_enabled, pd_idle, pd_pcL, pd_ev>>

\* the process runs one controller; the other one's variables stay as they are
GCFrame == ctl = "GC" /\ UNCHANGED <<ctl, pdVars>>

PDFrame == ctl = "PD" /\ UNCHANGED <<ctl, gcVars>>

GCElems == {"preview_sink", "detect_sink", "overlay", "detect_valve",
            "inference_valve", "inference_sink"}

\* outcomes of the get_by_name lookups: everything found, or one name missing
GCFoundChoices == {GCElems} \cup {GCElems \ {e} : e \in GCElems}

\* the element handles that are not None
GCHandles == IF gc_pipe = NoPipe THEN {} ELSE gc_names

\* the record of the last step: the operation, the thread it ran on, whether
\* it wrote a gate property, scheduled a work item, raised, or returned at a
\* guard; for stop and the bus handler also the state they found
Ev(op, thr, wrote, sched, raised, noop) ==
  [op |-> op, thr |-> thr, wrote |-> wrote, sched |-> sched,
   raised |-> raised, noop |-> noop, found |-> "-"]

Found(ev, running) ==
  [ev EXCEPT !.found = IF running THEN "RUNNING" ELSE "OTHER"]

\* RUNNING: start has returned with the graph PLAYING and the running flag
\* set, and the GLib thread the controller started is inside its loop
GCPlaying == gc_running /\ gc_pipe # NoPipe /\ gc_pipe.st = "PLAYING"

GCRunning == GCPlaying /\ gc_pcL = "idle" /\ gc_thread = "looping"

\* pipeline description string: detect_valve drop=false, inference_valve drop=true
GCNewPipe ==
  [st |-> "NULL", detect_drop |-> FALSE, inference_drop |-> TRUE, used |-> FALSE,
   hook |-> FALSE]

GCInit ==
  /\ gc_names \in GCFoundChoices
  /\ gc_pipe = NoPipe
  /\ gc_leaked = 0
  /\ gc_thread = "none"
  /\ gc_orphans = 0
  /\ gc_running = FALSE
  /\ gc_detection_enabled = FALSE
  /\ gc_detections = <<>>
  /\ gc_timers = 0
  /\ gc_pcL = "idle"
  /\ gc_pcD = "idle"
  /\ gc_ev = Ev("init", "caller", FALSE, FALSE, FALSE, FALSE)

\* pipeline.set_state(NULL)
SetNull(pipe) == IF pipe = NoPipe THEN pipe ELSE [pipe EXCEPT !.st = "NULL"]

\* build_pipeline: parse the description, look the elements up, watch the bus.
\* There is no guard: an existing pipeline is replaced; it stays live when it
\* is not in NULL.
GCBuild ==
  /\ GCFrame
  /\ gc_pcL = "idle"
  /\ \E ok \in BOOLEAN :
       IF ~ok
         THEN /\ gc_ev' = Ev("build", "caller", FALSE, FALSE, TRUE, FALSE)
              /\ UNCHANGED <<gc_pipe, gc_leaked>>
         ELSE LET leaks == gc_pipe # NoPipe /\ gc_pipe.st # "NULL"
              IN /\ leaks => gc_leaked + 1 < MaxPipes
                 /\ gc_pipe' = [GCNewPipe EXCEPT !.hook = "overlay" \in gc_names]
                 /\ gc_leaked' = IF leaks THEN gc_leaked + 1 ELSE gc_leaked
                 /\ gc_ev' = Ev("build", "caller", FALSE, FALSE, FALSE, FALSE)
  /\ UNCHANGED <<gc_names, gc_thread, gc_orphans, gc_running,
                 gc_detection_enabled, gc_detections, gc_timers, gc_pcL, gc_pcD>>

\* start_preview up to the return of set_state(PLAYING)
GCStartBegin ==
  /\ GCFrame
  /\ gc_pcL = "idle"
  /\ IF gc_running
       THEN /\ gc_ev' = Ev("start", "caller", FALSE, FALSE, FALSE, TRUE)
            /\ UNCHANGED <<gc_pipe, gc_thread, gc_orphans, gc_running, gc_pcL>>
       ELSE /\ AliveCount(gc_thread, gc_orphans) < MaxThreads
            /\ gc_timers < MaxTimers
            /\ gc_thread' = "started"
            /\ gc_orphans' = Orphaned(gc_orphans, gc_thread)
            /\ IF gc_pipe = NoPipe
                 THEN \* self.pipeline is None: AttributeError after the thread start
                      /\ gc_running' = TRUE
                      /\ gc_ev' = Ev("start", "caller", FALSE, FALSE, TRUE, FALSE)
                      /\ UNCHANGED <<gc_pipe, gc_pcL>>
                 ELSE \E ret \in {"FAILURE", "ASYNC"} :
                        IF ret = "FAILURE"
                          THEN /\ \E s \in {"NULL", "READY"} :
                                    gc_pipe' = [gc_pipe EXCEPT !.st = s, !.used = TRUE]
                               /\ gc_running' = FALSE
                               /\ gc_ev' = Ev("start", "caller", FALSE, FALSE, TRUE, FALSE)
                               /\ UNCHANGED gc_pcL
                          ELSE /\ gc_pipe' = [gc_pipe EXCEPT !.st = "PAUSED", !.used = TRUE]
                               /\ gc_running' = TRUE
                               /\ gc_pcL' = "start_wait"
                               /\ gc_ev' = Ev("start_begin", "caller", FALSE, FALSE, FALSE, FALSE)
  /\ UNCHANGED <<gc_names, gc_leaked, gc_detection_enabled, gc_detections,
                 gc_timers, gc_pcD>>

\* start_preview from get_state(timeout=5 s) to its end
GCStartFinish ==
  /\ GCFrame
  /\ gc_pcL = "start_wait"
  /\ gc_pcL' = "idle"
  /\ \E s \in {"PLAYING", "PAUSED"} :
       LET state == IF gc_pipe.st = "PAUSED" THEN s ELSE gc_pipe.st
       IN IF state = "PLAYING"
            THEN /\ gc_pipe' = [gc_pipe EXCEPT !.st = "PLAYING"]
                 /\ gc_timers' = gc_timers + 1
                 /\ gc_ev' = Ev("start", "caller", FALSE, TRUE, FALSE, FALSE)
                 /\ UNCHANGED gc_running
            ELSE /\ gc_running' = FALSE
                 /\ gc_pipe' = SetNull(gc_pipe)
                 /\ gc_ev' = Ev("start", "caller", FALSE, FALSE, TRUE, FALSE)
                 /\ UNCHANGED gc_timers
  /\ UNCHANGED <<gc_names, gc_leaked, gc_thread, gc_orphans,
                 gc_detection_enabled, gc_detections, gc_pcD>>

\* a stop_preview whose guard looks at the pipeline only
GCStopPreview_PipelineGuard(self) ==
  IF gc_pipe = NoPipe
    THEN [noop |-> TRUE, raised |-> FALSE, pipe |-> gc_pipe,
          thread |-> gc_thread, orphans |-> gc_orphans, running |-> gc_running,
          detection_enabled |-> gc_detection_enabled]
    ELSE
      LET th1 == LoopQuit(gc_thread)
      IN IF IsAlive(th1) /\ self = "cur"
           THEN [noop |-> FALSE, raised |-> TRUE, pipe |-> SetNull(gc_pipe),
                 thread |-> th1, orphans |-> gc_orphans, running |-> gc_running,
                 detection_enabled |-> FALSE]
           ELSE [noop |-> FALSE, raised |-> FALSE, pipe |-> SetNull(gc_pipe),
                 thread |-> "none",
                 orphans |-> Orphaned(gc_orphans, JoinTimeout(th1)),
                 running |-> FALSE, detection_enabled |-> FALSE]

\* the body of stop_preview run by thread `self` ("caller", "cur" or "orphan"):
\* the values it leaves behind, and whether it returned early or raised
GCStopPreview(self) ==
  IF gc_pipe = NoPipe \/ ~gc_running
    THEN [noop |-> TRUE, raised |-> FALSE, pipe |-> gc_pipe,
          thread |-> gc_thread, orphans |-> gc_orphans, running |-> gc_running,
          detection_enabled |-> gc_detection_enabled]
    ELSE
      LET th1 == LoopQuit(gc_thread)
      IN IF IsAlive(th1) /\ self = "cur"
           THEN \* Thread.join on the current thread raises RuntimeError
                [noop |-> FALSE, raised |-> TRUE, pipe |-> SetNull(gc_pipe),
                 thread |-> th1, orphans |-> gc_orphans, running |-> gc_running,
                 detection_enabled |-> FALSE]
           ELSE [noop |-> FALSE, raised |-> FALSE, pipe |-> SetNull(gc_pipe),
                 thread |-> "none",
                 orphans |-> Orphaned(gc_orphans, JoinTimeout(th1)),
                 running |-> FALSE, detection_enabled |-> FALSE]

\* stop_preview called by the caller thread
GCStop ==
  /\ GCFrame
  /\ gc_pcL = "idle"
  /\ LET r == GCStopPreview("caller")
     IN /\ gc_pipe' = r.pipe
        /\ gc_thread' = r.thread
        /\ gc_orphans' = r.orphans
        /\ gc_running' = r.running
        /\ gc_detection_enabled' = r.detection_enabled
        /\ gc_ev' = Found(Ev("stop", "caller", FALSE, FALSE, r.raised, r.noop),
                         GCRunning)
  /\ UNCHANGED <<gc_names, gc_leaked, gc_detections, gc_timers, gc_pcL, gc_pcD>>

\* the valve a handle refers to is written only when the handle is not None
GCWriteDetect(pipe, drop) ==
  IF "detect_valve" \in GCHandles THEN [pipe EXCEPT !.detect_drop = drop] ELSE pipe

GCWriteInference(pipe, drop) ==
  IF "inference_valve" \in GCHandles THEN [pipe EXCEPT !.inference_drop = drop] ELSE pipe

GCHasValve == "detect_valve" \in GCHandles \/ "inference_valve" \in GCHandles

\* start_detection as it would be without its "already enabled" guard
GCStartDetection_NoGuard ==
  /\ GCFrame
  /\ gc_pcD = "idle"
  /\ IF ~gc_running
       THEN /\ gc_ev' = Ev("start_detection", "caller", FALSE, FALSE, FALSE, TRUE)
            /\ UNCHANGED <<gc_pipe, gc_pcD>>
       ELSE /\ gc_pipe' = GCWriteInference(GCWriteDetect(gc_pipe, FALSE), FALSE)
            /\ gc_pcD' = "start_detection_flag"
            /\ gc_ev' = Ev("start_detection", "caller", GCHasValve, FALSE, FALSE, FALSE)
  /\ UNCHANGED <<gc_names, gc_leaked, gc_thread, gc_orphans, gc_running,
                 gc_detection_enabled, gc_detections, gc_timers, gc_pcL>>

\* start_detection: the two guards, then both valves are opened
GCStartDetection ==
  /\ GCFrame
  /\ gc_pcD = "idle"
  /\ IF ~gc_running \/ gc_detection_enabled
       THEN /\ gc_ev' = Ev("start_detection", "caller", FALSE, FALSE, FALSE, TRUE)
            /\ UNCHANGED <<gc_pipe, gc_pcD>>
       ELSE /\ gc_pipe' = GCWriteInference(GCWriteDetect(gc_pipe, FALSE), FALSE)
            /\ gc_pcD' = "start_detection_flag"
            /\ gc_ev' = Ev("start_detection", "caller", GCHasValve, FALSE, FALSE, FALSE)
  /\ UNCHANGED <<gc_names, gc_leaked, gc_thread, gc_orphans, gc_running,
                 gc_detection_enabled, gc_detections, gc_timers, gc_pcL>>

\* start_detection: self._detection_enabled = True
GCStartDetectionFlag ==
  /\ GCFrame
  /\ gc_pcD = "start_detection_flag"
  /\ gc_pcD' = "idle"
  /\ gc_detection_enabled' = TRUE
  /\ gc_ev' = Ev("start_detection_flag", "caller", FALSE, FALSE, FALSE, FALSE)
  /\ UNCHANGED <<gc_names, gc_pipe, gc_leaked, gc_thread, gc_orphans, gc_running,
                 gc_detections, gc_timers, gc_pcL>>

\* a stop_detection that leaves the inference valve as it is
GCStopDetection_DisplayOnly ==
  /\ GCFrame
  /\ gc_pcD = "idle"
  /\ IF ~gc_detection_enabled
       THEN /\ gc_ev' = Ev("stop_detection", "caller", FALSE, FALSE, FALSE, TRUE)
            /\ UNCHANGED <<gc_pipe, gc_detections, gc_pcD>>
       ELSE /\ gc_pipe' = GCWriteDetect(gc_pipe, TRUE)
            /\ gc_detections' = <<>>
            /\ gc_pcD' = "stop_detection_flag"
            /\ gc_ev' = Ev("stop_detection", "caller", GCHasValve, FALSE, FALSE, FALSE)
  /\ UNCHANGED <<gc_names, gc_leaked, gc_thread, gc_orphans, gc_running,
                 gc_detection_enabled, gc_timers, gc_pcL>>

\* stop_detection: the guard, then both valves are closed and the results cleared
GCStopDetection ==
  /\ GCFrame
  /\ gc_pcD = "idle"
  /\ IF ~gc_detection_enabled
       THEN /\ gc_ev' = Ev("stop_detection", "caller", FALSE, FALSE, FALSE, TRUE)
            /\ UNCHANGED <<gc_pipe, gc_detections, gc_pcD>>
       ELSE /\ gc_pipe' = GCWriteInference(GCWriteDetect(gc_pipe, TRUE), TRUE)
            /\ gc_detections' = <<>>
            /\ gc_pcD' = "stop_detection_flag"
            /\ gc_ev' = Ev("stop_detection", "caller", GCHasValve, FALSE, FALSE, FALSE)
  /\ UNCHANGED <<gc_names, gc_leaked, gc_thread, gc_orphans, gc_running,
                 gc_detection_enabled, gc_timers, gc_pcL>>

\* stop_detection: self._detection_enabled = False
GCStopDetectionFlag ==
  /\ GCFrame
  /\ gc_pcD = "stop_detection_flag"
  /\ gc_pcD' = "idle"
  /\ gc_detection_enabled' = FALSE
  /\ gc_ev' = Ev("stop_detection_flag", "caller", FALSE, FALSE, FALSE, FALSE)
  /\ UNCHANGED <<gc_names, gc_pipe, gc_leaked, gc_thread, gc_orphans, gc_running,
                 gc_detections, gc_timers, gc_pcL>>

\* _run_glib: the started thread enters main_loop.run()
GCRunGlib ==
  /\ GCFrame
  /\ gc_thread = "started"
  /\ gc_thread' = "looping"
  /\ gc_ev' = Ev("run_glib", "cur", FALSE, FALSE, FALSE, FALSE)
  /\ UNCHANGED <<gc_names, gc_pipe, gc_leaked, gc_orphans, gc_running,
                 gc_detection_enabled, gc_detections, gc_timers, gc_pcL, gc_pcD>>

\* _run_glib: main_loop.run() returns after quit and the thread ends
GCRunGlibReturn ==
  /\ GCFrame
  /\ gc_thread = "quitting"
  /\ gc_thread' = "exited"
  /\ gc_ev' = Ev("run_glib_return", "cur", FALSE, FALSE, FALSE, FALSE)
  /\ UNCHANGED <<gc_names, gc_pipe, gc_leaked, gc_orphans, gc_running,
                 gc_detection_enabled, gc_detections, gc_timers, gc_pcL, gc_pcD>>

\* thread `who` is inside main_loop.run() and dispatches the sources of the
\* default main context
GCDispatching(who) ==
  IF who = "cur" THEN gc_thread = "looping" ELSE gc_orphans > 0

\* some pipeline of the controller is not in NULL and may post bus messages
GCLivePipe == (gc_pipe # NoPipe /\ gc_pipe.st # "NULL") \/ gc_leaked > 0

\* _on_bus_message on a GLib thread, for a message a live pipeline has posted
\* on its bus: ERROR and EOS call stop_preview inline
GCOnBusMessage ==
  /\ GCFrame
  /\ GCLivePipe
  /\ \E who \in {"cur", "orphan"}, m \in MsgTypes :
       /\ GCDispatching(who)
       /\ IF m \in StopMsgs
            THEN LET r == GCStopPreview(who)
                 IN /\ gc_pipe' = r.pipe
                    /\ gc_thread' = r.thread
                    /\ gc_orphans' = r.orphans
                    /\ gc_running' = r.running
                    /\ gc_detection_enabled' = r.detection_enabled
                    /\ gc_ev' = Found(Ev(m, who, FALSE, FALSE, r.raised, r.noop),
                                     GCRunning)
            ELSE /\ gc_ev' = Ev(m, who, FALSE, FALSE, FALSE, FALSE)
                 /\ UNCHANGED <<gc_pipe, gc_thread, gc_orphans, gc_running,
                                gc_detection_enabled>>
  /\ UNCHANGED <<gc_names, gc_leaked, gc_detections, gc_timers, gc_pcL, gc_pcD>>

\* _close_detection_valve_initial, 500 ms after a start, on a GLib thread
GCCloseDetectionValveInitial ==
  /\ GCFrame
  /\ gc_timers > 0
  /\ gc_timers' = gc_timers - 1
  /\ \E who \in {"cur", "orphan"} :
       /\ GCDispatching(who)
       /\ IF "detect_valve" \in GCHandles /\ ~gc_detection_enabled
            THEN /\ gc_pipe' = GCWriteDetect(gc_pipe, TRUE)
                 /\ gc_ev' = Ev("warmup", who, TRUE, FALSE, FALSE, FALSE)
            ELSE /\ gc_ev' = Ev("warmup", who, FALSE, FALSE, FALSE, FALSE)
                 /\ UNCHANGED gc_pipe
  /\ UNCHANGED <<gc_names, gc_leaked, gc_thread, gc_orphans, gc_running,
                 gc_detection_enabled, gc_detections, gc_pcL, gc_pcD>>

\* _on_overlay_draw without its "only draw if detection is enabled" guard
GCOnOverlayDraw_NoGuard ==
  /\ GCFrame
  /\ gc_pipe # NoPipe
  /\ gc_pipe.hook
  /\ gc_pipe.st \in {"PAUSED", "PLAYING"}
  /\ ~gc_pipe.detect_drop
  /\ gc_ev' = Ev("overlay_draw", "stream", FALSE, FALSE, FALSE, FALSE)
  /\ UNCHANGED <<gc_names, gc_pipe, gc_leaked, gc_thread, gc_orphans, gc_running,
                 gc_detection_enabled, gc_detections, gc_timers, gc_pcL, gc_pcD>>

\* _on_overlay_draw, called on a streaming thread for every frame that passes
\* detect_valve and reaches cairooverlay: it returns at once unless detection
\* is enabled (noop); otherwise it goes on to the drawing section
GCOnOverlayDraw ==
  /\ GCFrame
  /\ gc_pipe # NoPipe
  /\ gc_pipe.hook
  /\ gc_pipe.st \in {"PAUSED", "PLAYING"}
  /\ ~gc_pipe.detect_drop
  /\ gc_ev' = Ev("overlay_draw", "stream", FALSE, FALSE, FALSE,
                 ~gc_detection_enabled)
  /\ UNCHANGED <<gc_names, gc_pipe, gc_leaked, gc_thread, gc_orphans, gc_running,
                 gc_detection_enabled, gc_detections, gc_timers, gc_pcL, gc_pcD>>

\* ================================================================== PD
\* GStreamerPreviewDetect
PDElems == {"preview_sink", "detect_sink", "detect_hidden", "overlay",
            "det_sink", "apps_valve", "det_sel", "t"}

\* the names build_pipeline insists on (every lookup but the overlay)
PDRequired == PDElems \ {"overlay"}

\* outcomes of the get_by_name lookups: everything found, or one name missing
PDFoundChoices == {PDElems} \cup {PDElems \ {e} : e \in PDElems}

\* the element handles that are not None
PDHandles == IF pd_pipe = NoPipe THEN {} ELSE pd_names

PDPlaying == pd_running /\ pd_pipe # NoPipe /\ pd_pipe.st = "PLAYING"

PDRunning == PDPlaying /\ pd_pcL = "idle" /\ pd_thread = "looping"

\* pipeline description string: outputselector on its first pad (the fakesink),
\* apps_valve drop=true; no bus watch yet
PDNewPipe ==
  [st |-> "NULL", sel |-> "hidden", apps_drop |-> TRUE, watch |-> FALSE]

PDInit ==
  /\ pd_names \in PDFoundChoices
  /\ pd_pipe = NoPipe
  /\ pd_main_loop = FALSE
  /\ pd_thread = "none"
  /\ pd_orphans = 0
  /\ pd_running = FALSE
  /\ pd_detection_enabled = FALSE
  /\ pd_idle = <<>>
  /\ pd_pcL = "idle"
  /\ pd_ev = Ev("init", "caller", FALSE, FALSE, FALSE, FALSE)

\* _set_selector_target on the given handles: None selector returns, a None
\* target element raises AttributeError, otherwise active-pad is written
PDSetSelectorTarget(pipe, handles, hidden) ==
  LET target == IF hidden THEN "detect_hidden" ELSE "detect_sink"
  IN IF "det_sel" \notin handles
       THEN [pipe |-> pipe, raised |-> FALSE, wrote |-> FALSE]
       ELSE IF target \notin handles
              THEN [pipe |-> pipe, raised |-> TRUE, wrote |-> FALSE]
              ELSE [pipe |-> [pipe EXCEPT !.sel = IF hidden THEN "hidden" ELSE "visible"],
                    raised |-> FALSE, wrote |-> TRUE]

\* the body of build_pipeline: the values it leaves behind, whether it raised
PDBuildPipeline(ok) ==
  IF pd_pipe # NoPipe
    THEN \* "Pipeline already exists"
         [raised |-> TRUE, pipe |-> pd_pipe, main_loop |-> pd_main_loop,
          detection_enabled |-> pd_detection_enabled, wrote |-> FALSE]
    ELSE IF ~ok
      THEN \* Gst.parse_launch raises
           [raised |-> TRUE, pipe |-> pd_pipe, main_loop |-> pd_main_loop,
            detection_enabled |-> pd_detection_enabled, wrote |-> FALSE]
      ELSE IF ~(PDRequired \subseteq pd_names)
        THEN \* "Missing expected elements": self.pipeline stays set
             [raised |-> TRUE, pipe |-> PDNewPipe, main_loop |-> pd_main_loop,
              detection_enabled |-> pd_detection_enabled, wrote |-> FALSE]
        ELSE [raised |-> FALSE,
              pipe |-> [PDSetSelectorTarget([PDNewPipe EXCEPT !.watch = TRUE],
                                            pd_names, TRUE).pipe
                          EXCEPT !.apps_drop = TRUE],
              main_loop |-> TRUE, detection_enabled |-> FALSE, wrote |-> TRUE]

\* build_pipeline called on its own by the caller thread
PDBuild ==
  /\ PDFrame
  /\ pd_pcL = "idle"
  /\ \E ok \in BOOLEAN :
       LET b == PDBuildPipeline(ok)
       IN /\ pd_pipe' = b.pipe
          /\ pd_main_loop' = b.main_loop
          /\ pd_detection_enabled' = b.detection_enabled
          /\ pd_ev' = Ev("build", "caller", b.wrote, FALSE, b.raised, FALSE)
  /\ UNCHANGED <<pd_names, pd_thread, pd_orphans, pd_running, pd_idle, pd_pcL>>

\* start up to the return of set_state(PLAYING)
PDStartBegin ==
  /\ PDFrame
  /\ pd_pcL = "idle"
  /\ \E ok \in BOOLEAN, ret \in {"FAILURE", "ASYNC"} :
       LET b == PDBuildPipeline(ok)
       IN /\ pd_main_loop' = b.main_loop
          /\ pd_detection_enabled' = b.detection_enabled
          /\ IF b.raised
               THEN /\ pd_pipe' = b.pipe
                    /\ pd_ev' = Ev("start", "caller", FALSE, FALSE, TRUE, FALSE)
                    /\ UNCHANGED <<pd_thread, pd_orphans, pd_running, pd_pcL>>
               ELSE /\ AliveCount(pd_thread, pd_orphans) < MaxThreads
                    /\ pd_thread' = "started"
                    /\ pd_orphans' = Orphaned(pd_orphans, pd_thread)
                    /\ IF ret = "FAILURE"
                         THEN /\ pd_running' = FALSE
                              /\ pd_pipe' = SetNull(b.pipe)
                              /\ pd_ev' = Ev("start", "caller", b.wrote, FALSE, TRUE, FALSE)
                              /\ UNCHANGED pd_pcL
                         ELSE /\ pd_running' = TRUE
                              /\ pd_pipe' = [b.pipe EXCEPT !.st = "PAUSED"]
                              /\ pd_pcL' = "start_wait"
                              /\ pd_ev' = Ev("start_begin", "caller", b.wrote, FALSE, FALSE, FALSE)
  /\ UNCHANGED <<pd_names, pd_idle>>

\* start: get_state(CLOCK_TIME_NONE) returns, PLAYING or not; start returns
PDStartFinish ==
  /\ PDFrame
  /\ pd_pcL = "start_wait"
  /\ pd_pcL' = "idle"
  /\ \E s \in {"PLAYING", "PAUSED"} :
       pd_pipe' = IF pd_pipe # NoPipe /\ pd_pipe.st = "PAUSED"
                    THEN [pd_pipe EXCEPT !.st = s]
                    ELSE pd_pipe
  /\ pd_ev' = Ev("start", "caller", FALSE, FALSE, FALSE, FALSE)
  /\ UNCHANGED <<pd_names, pd_main_loop, pd_thread, pd_orphans, pd_running,
                 pd_detection_enabled, pd_idle>>

\* the body of stop run by thread `self` ("caller", "cur" or "orphan").  A
\* thread that has been told to quit and is no longer referenced leaves its
\* loop on its own and is dropped from the state.
PDStopBody(self) ==
  IF pd_pipe = NoPipe
    THEN [noop |-> TRUE, pipe |-> pd_pipe, main_loop |-> pd_main_loop,
          thread |-> pd_thread, orphans |-> pd_orphans, running |-> pd_running]
    ELSE
      LET \* main_loop.quit() only if main_loop and _running and is_running()
          th1 == IF pd_main_loop /\ pd_running THEN LoopQuit(pd_thread) ELSE pd_thread
          \* join, but not from inside the GLib thread
          th2 == IF th1 # "none" /\ self # "cur" THEN JoinTimeout(th1) ELSE th1
      IN [noop |-> FALSE, pipe |-> NoPipe, main_loop |-> FALSE,
          thread |-> "none", orphans |-> Orphaned(pd_orphans, th2),
          running |-> FALSE]

\* stop called by the caller thread
PDStop ==
  /\ PDFrame
  /\ pd_pcL = "idle"
  /\ LET r == PDStopBody("caller")
     IN /\ pd_pipe' = r.pipe
        /\ pd_main_loop' = r.main_loop
        /\ pd_thread' = r.thread
        /\ pd_orphans' = r.orphans
        /\ pd_running' = r.running
        /\ pd_ev' = Found(Ev("stop", "caller", FALSE, FALSE, FALSE, r.noop),
                         PDRunning)
  /\ UNCHANGED <<pd_names, pd_detection_enabled, pd_idle, pd_pcL>>

\* names of the two toggle steps in pd_ev, by argument
SetOp(enabled) ==
  IF enabled THEN "set_detection_enabled(True)" ELSE "set_detection_enabled(False)"

ApplyOp(enabled) == IF enabled THEN "_apply(True)" ELSE "_apply(False)"

\* set_detection_enabled(enabled) on a caller thread: two guards, then idle_add
PDSetDetectionEnabled ==
  /\ PDFrame
  /\ \E enabled \in BOOLEAN :
       IF pd_pipe = NoPipe \/ pd_detection_enabled = enabled
         THEN /\ pd_ev' = Ev(SetOp(enabled), "caller",
                             FALSE, FALSE, FALSE, TRUE)
              /\ UNCHANGED pd_idle
         ELSE /\ Len(pd_idle) < MaxIdle
              /\ pd_idle' = Append(pd_idle, <<"apply", enabled>>)
              /\ pd_ev' = Ev(SetOp(enabled), "caller",
                             FALSE, TRUE, FALSE, FALSE)
  /\ UNCHANGED <<pd_names, pd_pipe, pd_main_loop, pd_thread, pd_orphans,
                 pd_running, pd_detection_enabled, pd_pcL>>

\* _run_glib: the started thread enters main_loop.run()
PDRunGlib ==
  /\ PDFrame
  /\ pd_thread = "started"
  /\ pd_thread' = "looping"
  /\ pd_ev' = Ev("run_glib", "cur", FALSE, FALSE, FALSE, FALSE)
  /\ UNCHANGED <<pd_names, pd_pipe, pd_main_loop, pd_orphans, pd_running,
                 pd_detection_enabled, pd_idle, pd_pcL>>

PDDispatching(who) ==
  IF who = "cur" THEN pd_thread = "looping" ELSE pd_orphans > 0

\* _on_bus_message on a GLib thread, for a message the watched pipeline has
\* posted: ERROR and EOS schedule stop with idle_add
PDOnBusMessage ==
  /\ PDFrame
  /\ pd_pipe # NoPipe
  /\ pd_pipe.watch
  /\ pd_pipe.st # "NULL"
  /\ \E who \in {"cur", "orphan"}, m \in MsgTypes :
       /\ PDDispatching(who)
       /\ IF m \in StopMsgs
            THEN /\ Len(pd_idle) < MaxIdle
                 /\ pd_idle' = Append(pd_idle, <<"stop">>)
                 /\ pd_ev' = Found(Ev(m, who, FALSE, TRUE, FALSE, FALSE), PDRunning)
            ELSE /\ pd_ev' = Ev(m, who, FALSE, FALSE, FALSE, FALSE)
                 /\ UNCHANGED pd_idle
  /\ UNCHANGED <<pd_names, pd_pipe, pd_main_loop, pd_thread, pd_orphans,
                 pd_running, pd_detection_enabled, pd_pcL>>

\* set_detection_enabled._apply(enabled) run as an idle source on a GLib thread
PDApply(enabled, who) ==
  LET sel == PDSetSelectorTarget(pd_pipe, PDHandles, ~enabled)
      valve == "apps_valve" \in PDHandles
  IN IF sel.raised
       THEN /\ pd_ev' = Ev(ApplyOp(enabled), who, FALSE, FALSE, TRUE, FALSE)
            /\ UNCHANGED <<pd_pipe, pd_detection_enabled>>
       ELSE /\ pd_pipe' = IF valve THEN [sel.pipe EXCEPT !.apps_drop = ~enabled]
                                   ELSE sel.pipe
            /\ pd_detection_enabled' = enabled
            /\ pd_ev' = Ev(ApplyOp(enabled), who, sel.wrote \/ valve, FALSE, FALSE, FALSE)

\* the oldest idle source is dispatched on a GLib thread and removed
PDDispatchIdle ==
  /\ PDFrame
  /\ pd_idle # <<>>
  /\ pd_idle' = Tail(pd_idle)
  /\ \E who \in {"cur", "orphan"} :
       /\ PDDispatching(who)
       /\ IF Head(pd_idle)[1] = "apply"
            THEN /\ PDApply(Head(pd_idle)[2], who)
                 /\ UNCHANGED <<pd_main_loop, pd_thread, pd_orphans, pd_running>>
            ELSE LET r == PDStopBody(who)
                 IN /\ pd_pipe' = r.pipe
                    /\ pd_main_loop' = r.main_loop
                    /\ pd_thread' = r.thread
                    /\ pd_orphans' = r.orphans
                    /\ pd_running' = r.running
                    /\ pd_ev' = Ev("idle_stop", who, FALSE, FALSE, FALSE, r.noop)
                    /\ UNCHANGED pd_detection_enabled
  /\ UNCHANGED <<pd_names, pd_pcL>>

\* ================================================================ system
vars == <<ctl, gcVars, pdVars, cyVars, uiVars, ppVars, qVars, wVars, stVars>>

\* one controller is instantiated; the other one's lookups are irrelevant
Controllers ==
  /\ GCInit
  /\ PDInit
  /\ \/ ctl = "GC" /\ pd_names = PDElems
     \/ ctl = "PD" /\ gc_names = GCElems

NoScript == cy_pos = 0 /\ cy_obs = <<>>

\* the widgets as main() creates them
Widgets ==
  /\ ui_preview = "Start Preview"
  /\ ui_detect = "Start Detection"
  /\ ui_detect_enabled = FALSE
  /\ ui_status = "Ready"

NoPanel == ui_pc = "none" /\ Widgets

\* a row of the output tensor: [x1, y1, x2, y2, confidence, class_id]; the
\* class id is a float and is counted in halves here (-1 is -0.5, 3 is 1.5)
NoRow == [x1 |-> 0, y1 |-> 0, x2 |-> 0, y2 |-> 0, conf |-> 0, cls |-> 0]

NoDetector ==
  pp_thr = 1 /\ pp_row = NoRow /\ pp_n = 0 /\ pp_out = <<>> /\ pp_in = <<>>

\* the queue elements of the two pipeline strings, named by their branch
QueueNames == {"preview_q", "detect_q", "hidden_q", "visible_q", "infer_q"}

NoStream ==
  /\ q_buf = [q \in QueueNames |-> <<>>]
  /\ q_held = [q \in QueueNames |-> 0]
  /\ q_next = 1
  /\ q_sel = "hidden"
  /\ q_stalled = {}
  /\ q_closed = {}
  /\ q_blocked = FALSE

\* no worker: the slot as __init__ leaves it
NoWorker ==
  /\ w_running = FALSE
  /\ w_pc = "exited"
  /\ w_local = <<>>
  /\ w_slot = <<>>
  /\ w_last = <<>>
  /\ w_read = <<>>
  /\ w_stop = "none"
  /\ w_seen = "-"

NoAsk == st_asked = FALSE

Init ==
  /\ Controllers /\ NoScript /\ NoPanel /\ NoDetector /\ NoStream /\ NoWorker
  /\ NoAsk

Next ==
  \/ GCBuild /\ Unscripted
  \/ GCStartBegin /\ Unscripted
  \/ GCStartFinish /\ Unscripted
  \/ GCStop /\ Unscripted
  \/ GCStartDetection /\ Unscripted
  \/ GCStartDetectionFlag /\ Unscripted
  \/ GCStopDetection /\ Unscripted
  \/ GCStopDetectionFlag /\ Unscripted
  \/ GCRunGlib /\ Unscripted
  \/ GCRunGlibReturn /\ Unscripted
  \/ GCOnBusMessage /\ Unscripted
  \/ GCCloseDetectionValveInitial /\ Unscripted
  \/ GCOnOverlayDraw /\ Unscripted
  \/ PDBuild /\ Unscripted
  \/ PDStartBegin /\ Unscripted
  \/ PDStartFinish /\ Unscripted
  \/ PDStop /\ Unscripted
  \/ PDSetDetectionEnabled /\ Unscripted
  \/ PDRunGlib /\ Unscripted
  \/ PDOnBusMessage /\ Unscripted
  \/ PDDispatchIdle /\ Unscripted

Spec == Init /\ [][Next]_vars

\* The GLib threads keep running: a started thread enters its loop, a loop
\* told to quit returns, and a loop that is running dispatches the timeout
\* and idle sources that are ready.  Callers and the bus are not obliged to
\* do anything.
FairSpec ==
  /\ Spec
  /\ WF_vars(GCRunGlib /\ Unscripted)
  /\ WF_vars(GCRunGlibReturn /\ Unscripted)
  /\ WF_vars(GCCloseDetectionValveInitial /\ Unscripted)
  /\ WF_vars(PDRunGlib /\ Unscripted)
  /\ WF_vars(PDDispatchIdle /\ Unscripted)

\* ---------------------------------------------------- two scripted cycles
\* what a caller can count after a call: flags, gates, live pipelines, loops
\* and GLib threads
GCObs ==
  [running |-> gc_running,
   detection_enabled |-> gc_detection_enabled,
   detect_open |-> gc_pipe # NoPipe /\ ~gc_pipe.detect_drop,
   inference_open |-> gc_pipe # NoPipe /\ ~gc_pipe.inference_drop,
   pipelines |-> (IF gc_pipe = NoPipe THEN 0 ELSE 1) + gc_leaked,
   threads |-> AliveCount(gc_thread, gc_orphans)]

PDObs ==
  [running |-> pd_running,
   detection_enabled |-> pd_detection_enabled,
   detect_open |-> pd_pipe # NoPipe /\ pd_pipe.sel = "visible",
   inference_open |-> pd_pipe # NoPipe /\ ~pd_pipe.apps_drop,
   pipelines |-> IF pd_pipe = NoPipe THEN 0 ELSE 1,
   threads |-> AliveCount(pd_thread, pd_orphans)]

\* calls per cycle: build, start, start_detection, stop for GC;
\* start (which builds), set_detection_enabled(True), stop for PD
CycleLen == IF ctl = "GC" THEN 4 ELSE 3

CyInit ==
  /\ Controllers
  /\ gc_names = GCElems
  /\ pd_names = PDElems
  /\ cy_pos = 1
  /\ cy_obs = <<>>
  /\ NoPanel
  /\ NoDetector
  /\ NoStream
  /\ NoWorker
  /\ NoAsk

CyNoted(obs) ==
  /\ cy_pos' = cy_pos + 1
  /\ cy_obs' = Append(cy_obs, obs)
  /\ OffScript

\* GC script: positions 1,5 build; 2,6 start; 3,7 start_detection; 4,8 stop.
\* Every call succeeds, and stop is called once the GLib thread is inside
\* its loop.
CyGCBuild ==
  /\ cy_pos \in {1, 5}
  /\ GCBuild
  /\ ~gc_ev'.raised
  /\ CyNoted(GCObs')

CyGCStartBegin ==
  /\ cy_pos \in {2, 6}
  /\ GCStartBegin
  /\ gc_pcL' = "start_wait"
  /\ Unscripted

CyGCStartFinish ==
  /\ cy_pos \in {2, 6}
  /\ GCStartFinish
  /\ ~gc_ev'.raised
  /\ CyNoted(GCObs')

CyGCStartDetection ==
  /\ cy_pos \in {3, 7}
  /\ gc_pcL = "idle"
  /\ GCStartDetection
  /\ Unscripted

CyGCStartDetectionFlag ==
  /\ cy_pos \in {3, 7}
  /\ GCStartDetectionFlag
  /\ CyNoted(GCObs')

CyGCStop ==
  /\ cy_pos \in {4, 8}
  /\ gc_thread = "looping"
  /\ GCStop
  /\ CyNoted(GCObs')

\* PD script: positions 1,4 start; 2,5 set_detection_enabled(True); 3,6 stop,
\* called once the toggle has been applied
CyPDStartBegin ==
  /\ cy_pos \in {1, 4}
  /\ PDStartBegin
  /\ pd_pcL' = "start_wait"
  /\ Unscripted

CyPDStartFinish ==
  /\ cy_pos \in {1, 4}
  /\ PDStartFinish
  /\ pd_pipe'.st = "PLAYING"
  /\ CyNoted(PDObs')

CyPDSetDetectionEnabled ==
  /\ cy_pos \in {2, 5}
  /\ pd_pcL = "idle"
  /\ PDSetDetectionEnabled
  /\ pd_ev'.op = SetOp(TRUE)
  /\ CyNoted(PDObs')

CyPDStop ==
  /\ cy_pos \in {3, 6}
  /\ pd_thread = "looping"
  /\ pd_idle = <<>>
  /\ PDStop
  /\ CyNoted(PDObs')

\* the bus may deliver warnings and state changes meanwhile, never ERROR/EOS
CyGCBusNotice ==
  /\ GCOnBusMessage
  /\ gc_ev'.op \in {"WARNING", "STATE_CHANGED"}
  /\ Unscripted

CyPDBusNotice ==
  /\ PDOnBusMessage
  /\ pd_ev'.op \in {"WARNING", "STATE_CHANGED"}
  /\ Unscripted

CyNext ==
  \/ CyGCBuild
  \/ CyGCStartBegin
  \/ CyGCStartFinish
  \/ CyGCStartDetection
  \/ CyGCStartDetectionFlag
  \/ CyGCStop
  \/ CyPDStartBegin
  \/ CyPDStartFinish
  \/ CyPDSetDetectionEnabled
  \/ CyPDStop
  \/ GCRunGlib /\ Unscripted
  \/ GCCloseDetectionValveInitial /\ Unscripted
  \/ PDRunGlib /\ Unscripted
  \/ PDDispatchIdle /\ Unscripted
  \/ CyGCBusNotice
  \/ CyPDBusNotice

CycleSpec == CyInit /\ [][CyNext]_vars

\* ------------------------------------------------------- the control panel
\* main(): the panel drives one GStreamerController from the Qt thread
UIInit ==
  /\ Controllers
  /\ ctl = "GC"
  /\ NoScript
  /\ ui_pc = "startup"
  /\ Widgets
  /\ NoDetector
  /\ NoStream
  /\ NoWorker
  /\ NoAsk

\* main(): build the pipeline once at startup, or exit
UIStartup ==
  /\ ui_pc = "startup"
  /\ GCBuild
  /\ ui_pc' = IF gc_ev'.raised THEN "exited" ELSE "ready"
  /\ UNCHANGED <<ui_preview, ui_detect, ui_detect_enabled, ui_status>>
  /\ OffPanel

\* the Qt thread runs one handler at a time
UIReady == ui_pc = "ready" /\ gc_pcL = "idle" /\ gc_pcD = "idle"

\* on_preview_clicked, start branch: the widgets after start_preview returned
UIPreviewStarted(raised) ==
  IF raised
    THEN /\ ui_status' = "Error"
         /\ UNCHANGED <<ui_preview, ui_detect, ui_detect_enabled>>
    ELSE /\ ui_preview' = "Stop Preview"
         /\ ui_detect_enabled' = TRUE
         /\ ui_detect' = "Start Detection"
         /\ ui_status' = "Preview Mode"

\* on_preview_clicked with the button reading "Start Preview"
UIPreviewClickStart ==
  /\ UIReady
  /\ ui_preview = "Start Preview"
  /\ GCStartBegin
  /\ IF gc_pcL' = "start_wait"
       THEN UNCHANGED <<ui_preview, ui_detect, ui_detect_enabled, ui_status>>
       ELSE UIPreviewStarted(gc_ev'.raised)
  /\ UNCHANGED ui_pc
  /\ OffPanel

\* ... start_preview returns from get_state
UIPreviewStartReturn ==
  /\ ui_pc = "ready"
  /\ GCStartFinish
  /\ UIPreviewStarted(gc_ev'.raised)
  /\ UNCHANGED ui_pc
  /\ OffPanel

\* on_preview_clicked with the button reading "Stop Preview"
UIPreviewClickStop ==
  /\ UIReady
  /\ ui_preview # "Start Preview"
  /\ GCStop
  /\ IF gc_ev'.raised
       THEN UNCHANGED <<ui_preview, ui_detect, ui_detect_enabled, ui_status>>
       ELSE /\ ui_preview' = "Start Preview"
            /\ ui_detect_enabled' = FALSE
            /\ ui_detect' = "Start Detection"
            /\ ui_status' = "Stopped"
  /\ UNCHANGED ui_pc
  /\ OffPanel

\* on_detect_clicked, start branch: the widgets after start_detection returned
UIDetectStarted ==
  /\ ui_detect' = "Stop Detection"
  /\ ui_status' = "Detection Mode"
  /\ UNCHANGED <<ui_preview, ui_detect_enabled>>

\* on_detect_clicked, stop branch: the widgets after stop_detection returned
UIDetectStopped ==
  /\ ui_detect' = "Start Detection"
  /\ ui_status' = "Preview Mode"
  /\ UNCHANGED <<ui_preview, ui_detect_enabled>>

\* on_detect_clicked (the button is enabled) reading "Start Detection"
UIDetectClickStart ==
  /\ UIReady
  /\ ui_detect_enabled
  /\ ui_detect = "Start Detection"
  /\ GCStartDetection
  /\ IF gc_ev'.noop
       THEN UIDetectStarted
       ELSE UNCHANGED <<ui_preview, ui_detect, ui_detect_enabled, ui_status>>
  /\ UNCHANGED ui_pc
  /\ OffPanel

UIDetectStartReturn ==
  /\ ui_pc = "ready"
  /\ GCStartDetectionFlag
  /\ UIDetectStarted
  /\ UNCHANGED ui_pc
  /\ OffPanel

\* on_detect_clicked reading "Stop Detection"
UIDetectClickStop ==
  /\ UIReady
  /\ ui_detect_enabled
  /\ ui_detect # "Start Detection"
  /\ GCStopDetection
  /\ IF gc_ev'.noop
       THEN UIDetectStopped
       ELSE UNCHANGED <<ui_preview, ui_detect, ui_detect_enabled, ui_status>>
  /\ UNCHANGED ui_pc
  /\ OffPanel

UIDetectStopReturn ==
  /\ ui_pc = "ready"
  /\ GCStopDetectionFlag
  /\ UIDetectStopped
  /\ UNCHANGED ui_pc
  /\ OffPanel

\* the GLib threads and the bus go on behind the panel
UIBackground ==
  /\ ui_pc = "ready"
  /\ \/ GCRunGlib
     \/ GCRunGlibReturn
     \/ GCOnBusMessage
     \/ GCCloseDetectionValveInitial
  /\ Unscripted

UINext ==
  \/ UIStartup
  \/ UIPreviewClickStart
  \/ UIPreviewStartReturn
  \/ UIPreviewClickStop
  \/ UIDetectClickStart
  \/ UIDetectStartReturn
  \/ UIDetectClickStop
  \/ UIDetectStopReturn
  \/ UIBackground

UISpec == UIInit /\ [][UINext]_vars

\* ------------------------------------------------------------ the detector
\* YOLODetectorNMS.postprocess.  Coordinates and confidences are exact numbers
\* on a small grid; class ids are floats counted in halves.

\* rows of one output tensor that are looked at
MaxRows == 2

\* len(COCO_CLASSES)
NumClasses == 80

ConfThresholds == {1, 2}

Confs == 0..3

Coords == 0..1

\* class ids -1, -0.5, 0, 0.5, 79, 79.5, 80, 80.5
RawClassIds == {-2, -1, 0, 1, 2 * NumClasses - 2, 2 * NumClasses - 1,
                2 * NumClasses, 2 * NumClasses + 1}

RawRows ==
  [x1 : Coords, y1 : Coords, x2 : Coords, y2 : Coords, conf : Confs,
   cls : RawClassIds]

\* int(class_id): truncation toward zero
IntOf(halves) == IF halves >= 0 THEN halves \div 2 ELSE -((-halves) \div 2)

\* a filter that would drop a row at the threshold as well
BelowThreshold_Exclusive(confidence, thr) == confidence <= thr

\* FILTER 1: confidence < self.conf_threshold
BelowThreshold(confidence, thr) == confidence < thr

\* FILTER 2: class_id < 0 or class_id >= len(COCO_CLASSES), after int()
BadClass(class_id) == class_id < 0 \/ class_id >= NumClasses

\* a filter that would let an empty box through
BadBox_Strict(width, height) == width < 0 \/ height < 0

\* FILTER 3: width <= 0 or height <= 0
BadBox(width, height) == width <= 0 \/ height <= 0

\* the detection dictionary (class_name, a lookup by class_id, left out)
Detection(pred) ==
  [x |-> pred.x1, y |-> pred.y1, w |-> pred.x2 - pred.x1, h |-> pred.y2 - pred.y1,
   class_id |-> IntOf(pred.cls), confidence |-> pred.conf]

\* an iteration that puts the detection in front of the list
PostprocessRow_Prepend(detections, pred, thr) ==
  IF BelowThreshold(pred.conf, thr) THEN detections
  ELSE IF BadClass(IntOf(pred.cls)) THEN detections
  ELSE IF BadBox(pred.x2 - pred.x1, pred.y2 - pred.y1) THEN detections
  ELSE <<Detection(pred)>> \o detections

\* one iteration of the loop over predictions
PostprocessRow(detections, pred, thr) ==
  IF BelowThreshold(pred.conf, thr) THEN detections
  ELSE IF BadClass(IntOf(pred.cls)) THEN detections
  ELSE IF BadBox(pred.x2 - pred.x1, pred.y2 - pred.y1) THEN detections
  ELSE Append(detections, Detection(pred))

PostInit ==
  /\ Controllers
  /\ ctl = "GC"
  /\ gc_names = GCElems
  /\ NoScript
  /\ NoPanel
  /\ pp_thr \in ConfThresholds
  /\ pp_row = NoRow
  /\ pp_n = 0
  /\ pp_out = <<>>
  /\ pp_in = <<>>
  /\ NoStream
  /\ NoWorker
  /\ NoAsk

PostprocessNext ==
  /\ pp_n < MaxRows
  /\ \E pred \in RawRows :
       /\ pp_row' = pred
       /\ pp_out' = PostprocessRow(pp_out, pred, pp_thr)
  /\ pp_n' = pp_n + 1
  /\ UNCHANGED <<pp_thr, pp_in, ctl, gcVars, pdVars>>
  /\ OffDetector

PostSpec == PostInit /\ [][PostprocessNext]_vars

\* The loop over a whole tensor, with the tensor kept: rows that start at
\* the origin and end at y2 = 1, with a confidence at or next to the
\* threshold
TensorRows ==
  {r \in RawRows : r.x1 = 0 /\ r.y2 = 1 /\ r.conf \in {1, 2}
                   /\ r.cls \in {-2, -1, 0, 2 * NumClasses - 1, 2 * NumClasses}}

PostprocessTensor ==
  /\ pp_n < MaxRows
  /\ \E pred \in TensorRows :
       /\ pp_row' = pred
       /\ pp_in' = Append(pp_in, pred)
       /\ pp_out' = PostprocessRow(pp_out, pred, pp_thr)
  /\ pp_n' = pp_n + 1
  /\ UNCHANGED <<pp_thr, ctl, gcVars, pdVars>>
  /\ OffDetector

TensorSpec == PostInit /\ [][PostprocessTensor]_vars

\* ------------------------------------------------------------ the queues
\* The queue elements between the tee and the sinks, as the two pipeline
\* strings declare them, under frames from the camera and consumers that
\* may take nothing.

\* frames pushed by the tee
MaxFrames == 3

\* max-size-buffers of a queue element declared without properties (its
\* byte and time limits are left out: they too admit more than one frame)
DefaultQueueBuffers == 200

\* queue elements of each graph
Queues(c) ==
  IF c = "GC" THEN {"preview_q", "detect_q", "infer_q"} ELSE QueueNames

\* max-size-buffers and leaky of each queue element
QueueProps ==
  [q \in QueueNames |->
     IF q \in {"hidden_q", "visible_q"}
       THEN [cap |-> DefaultQueueBuffers, leaky |-> FALSE]
       ELSE [cap |-> 1, leaky |-> TRUE]]

\* the sink at the end of each path, and the sinks that drop instead of
\* blocking (appsink max-buffers=1 drop=true)
SinkOf(c, q) ==
  IF c = "GC"
    THEN CASE q = "preview_q" -> "preview_sink"
           [] q = "detect_q" -> "detect_sink"
           [] OTHER -> "inference_sink"
    ELSE CASE q = "preview_q" -> "preview_sink"
           [] q = "hidden_q" -> "detect_hidden"
           [] q = "visible_q" -> "detect_sink"
           [] OTHER -> "det_sink"

Sinks(c) == {SinkOf(c, q) : q \in Queues(c) \ (IF c = "PD" THEN {"detect_q"} ELSE {})}

DroppingSinks == {"inference_sink", "det_sink"}

\* valves of each graph, the valve between the tee and a queue, and the
\* valve between a queue and its sink
Valves(c) == IF c = "GC" THEN {"detect_valve", "inference_valve"} ELSE {"apps_valve"}

ValveBefore(c, q) ==
  IF c = "GC" /\ q = "detect_q" THEN "detect_valve"
  ELSE IF c = "GC" /\ q = "infer_q" THEN "inference_valve"
  ELSE "-"

ValveAfter(c, q) == IF c = "PD" /\ q = "infer_q" THEN "apps_valve" ELSE "-"

\* queues fed by the tee
FirstQueues(c) == {"preview_q", "detect_q", "infer_q"}

\* the queue a queue pushes into ("-": it pushes into its sink)
NextQueue(c, q) ==
  IF c = "PD" /\ q = "detect_q"
    THEN (IF q_sel = "visible" THEN "visible_q" ELSE "hidden_q")
    ELSE "-"

\* a queue takes a frame without blocking the pusher
Accepts(q) == Len(q_buf[q]) < QueueProps[q].cap \/ QueueProps[q].leaky

\* the frames of a queue after a push: leaky=downstream drops the oldest
Pushed(buf, q, f) ==
  IF Len(buf) < QueueProps[q].cap THEN Append(buf, f) ELSE Append(Tail(buf), f)

QInit ==
  /\ Controllers
  /\ gc_names = GCElems
  /\ pd_names = PDElems
  /\ NoScript
  /\ NoPanel
  /\ NoDetector
  /\ NoWorker
  /\ NoAsk
  /\ q_buf = [q \in QueueNames |-> <<>>]
  /\ q_held = [q \in QueueNames |-> 0]
  /\ q_next = 1
  /\ q_sel \in (IF ctl = "PD" THEN {"hidden", "visible"} ELSE {"hidden"})
  /\ q_stalled \in SUBSET Sinks(ctl)
  /\ q_closed \in SUBSET Valves(ctl)
  /\ q_blocked = FALSE

QFrame == UNCHANGED <<ctl, gcVars, pdVars, q_sel, q_stalled, q_closed>> /\ OffStream

\* the tee pushes the next frame into every branch
TeePush ==
  /\ q_next <= MaxFrames
  /\ ~q_blocked
  /\ LET fed == {q \in FirstQueues(ctl) : ValveBefore(ctl, q) \notin q_closed}
     IN  IF \A q \in fed : Accepts(q)
           THEN /\ q_buf' = [q \in QueueNames |->
                               IF q \in fed THEN Pushed(q_buf[q], q, q_next)
                               ELSE q_buf[q]]
                /\ q_next' = q_next + 1
                /\ UNCHANGED q_blocked
           ELSE /\ q_blocked' = TRUE
                /\ UNCHANGED <<q_buf, q_next>>
  /\ UNCHANGED q_held
  /\ QFrame

\* the streaming thread of a queue takes its oldest frame out
QueuePop ==
  /\ \E q \in Queues(ctl) :
       /\ q_held[q] = 0
       /\ q_buf[q] # <<>>
       /\ q_held' = [q_held EXCEPT ![q] = Head(q_buf[q])]
       /\ q_buf' = [q_buf EXCEPT ![q] = Tail(q_buf[q])]
  /\ UNCHANGED <<q_next, q_blocked>>
  /\ QFrame

\* and pushes it downstream: into the next queue, into a closed valve, or
\* into the sink, where it waits as long as the consumer is stalled
QueueDeliver ==
  /\ \E q \in Queues(ctl) :
       /\ q_held[q] # 0
       /\ LET nq == NextQueue(ctl, q)
          IN  IF nq # "-"
                THEN /\ Accepts(nq)
                     /\ q_buf' = [q_buf EXCEPT ![nq] = Pushed(q_buf[nq], nq, q_held[q])]
                ELSE /\ \/ ValveAfter(ctl, q) \in q_closed
                        \/ SinkOf(ctl, q) \in DroppingSinks
                        \/ SinkOf(ctl, q) \notin q_stalled
                     /\ UNCHANGED q_buf
       /\ q_held' = [q_held EXCEPT ![q] = 0]
  /\ UNCHANGED <<q_next, q_blocked>>
  /\ QFrame

QNext == TeePush \/ QueuePop \/ QueueDeliver

QueueSpec == QInit /\ [][QNext]_vars

\* ------------------------------------------------------------ the worker
\* The detection worker, the slot self._detections and its reader.  The
\* controller declares the slot and clears it in stop_detection; the loop
\* that fills it and the drawing that reads it are stubs in the controller
\* and follow the design the controller is written for.

\* detections in one DetectionSet
MaxDets == 2

\* inference_width, inference_height, camera_width, camera_height
InferenceWidth == 416

InferenceHeight == 416

DisplayWidth == 640

DisplayHeight == 480

\* boxes a detector may return, in inference space
Boxes ==
  {[x |-> 100, y |-> 50, w |-> 80, h |-> 40],
   [x |-> 13, y |-> 415, w |-> 416, h |-> 1]}

DetectionSets == UNION {[1..n -> Boxes] : n \in 0..MaxDets}

\* a rescale with the X factor for both axes
ScaleBox_OneFactor(b) ==
  [x |-> (b.x * DisplayWidth) \div InferenceWidth,
   y |-> (b.y * DisplayWidth) \div InferenceWidth,
   w |-> (b.w * DisplayWidth) \div InferenceWidth,
   h |-> (b.h * DisplayWidth) \div InferenceWidth]

\* inference space to display space: independent factors, truncated
ScaleBox(b) ==
  [x |-> (b.x * DisplayWidth) \div InferenceWidth,
   y |-> (b.y * DisplayHeight) \div InferenceHeight,
   w |-> (b.w * DisplayWidth) \div InferenceWidth,
   h |-> (b.h * DisplayHeight) \div InferenceHeight]

Rescaled(set) == [i \in 1..Len(set) |-> ScaleBox(set[i])]

WInit ==
  /\ Controllers
  /\ ctl = "GC"
  /\ gc_names = GCElems
  /\ NoScript
  /\ NoPanel
  /\ NoDetector
  /\ NoStream
  /\ NoAsk
  /\ w_running = TRUE
  /\ w_pc = "top"
  /\ w_local = <<>>
  /\ w_slot = <<>>
  /\ w_last = <<>>
  /\ w_read = <<>>
  /\ w_stop = "none"
  /\ w_seen = "-"

WFrame == UNCHANGED <<ctl, gcVars, pdVars>> /\ OffWorker

\* a loop top that does not look at the flag
WorkerLoopTop_NoCheck ==
  /\ w_pc = "top"
  /\ w_pc' = "detect"
  /\ UNCHANGED <<w_running, w_local, w_slot, w_last, w_read, w_stop, w_seen>>
  /\ WFrame

\* loop top: leave when the flag is cleared, else take the newest frame
\* and call detect()
WorkerLoopTop ==
  /\ w_pc = "top"
  /\ w_pc' = IF w_running THEN "detect" ELSE "exited"
  /\ UNCHANGED <<w_running, w_local, w_slot, w_last, w_read, w_stop, w_seen>>
  /\ WFrame

\* detect() returns a DetectionSet, or fails and the loop continues
WorkerDetectReturn ==
  /\ w_pc = "detect"
  /\ \/ \E set \in DetectionSets : w_local' = set /\ w_pc' = "check"
     \/ w_pc' = "top" /\ UNCHANGED w_local
  /\ UNCHANGED <<w_running, w_slot, w_last, w_read, w_stop, w_seen>>
  /\ WFrame

\* the flag is looked at again after detect()
WorkerCheckAfter ==
  /\ w_pc = "check"
  /\ w_pc' = IF w_running THEN "publish" ELSE "top"
  /\ UNCHANGED <<w_running, w_local, w_slot, w_last, w_read, w_stop, w_seen>>
  /\ WFrame

\* a publish that fills the slot one detection at a time
WorkerPublish_InPlace ==
  /\ w_pc = "publish"
  /\ LET full == Rescaled(w_local)
         k == IF Len(w_slot) < Len(full) /\ w_slot = SubSeq(full, 1, Len(w_slot))
                THEN Len(w_slot) + 1 ELSE 1
     IN  IF w_slot = full
           THEN w_pc' = "top" /\ w_last' = full /\ UNCHANGED w_slot
           ELSE /\ w_slot' = SubSeq(full, 1, IF k < Len(full) THEN k ELSE Len(full))
                /\ UNCHANGED <<w_pc, w_last>>
  /\ UNCHANGED <<w_running, w_local, w_read, w_stop, w_seen>>
  /\ WFrame

\* publish: the rescaled set replaces the slot's reference in one step
WorkerPublish ==
  /\ w_pc = "publish"
  /\ w_slot' = Rescaled(w_local)
  /\ w_last' = Rescaled(w_local)
  /\ w_pc' = "top"
  /\ UNCHANGED <<w_running, w_local, w_read, w_stop, w_seen>>
  /\ WFrame

\* the draw callback reads the slot
OverlayRead ==
  /\ w_read' = w_slot
  /\ w_read # w_slot
  /\ UNCHANGED <<w_running, w_pc, w_local, w_slot, w_last, w_stop, w_seen>>
  /\ WFrame

\* stop_detection: self._detections = []
StopDetectionClear ==
  /\ w_slot # <<>>
  /\ w_slot' = <<>>
  /\ UNCHANGED <<w_running, w_pc, w_local, w_last, w_read, w_stop, w_seen>>
  /\ WFrame

\* stop_preview up to self._running = False
WorkerStopBegin ==
  /\ w_stop = "none"
  /\ w_running
  /\ w_running' = FALSE
  /\ w_stop' = "joining"
  /\ w_seen' = w_pc
  /\ UNCHANGED <<w_pc, w_local, w_slot, w_last, w_read>>
  /\ WFrame

\* stop waits for the worker to leave its loop, then returns
WorkerStopJoin ==
  /\ w_stop = "joining"
  /\ w_pc = "exited"
  /\ w_stop' = "returned"
  /\ UNCHANGED <<w_running, w_pc, w_local, w_slot, w_last, w_read, w_seen>>
  /\ WFrame

WNext ==
  \/ WorkerLoopTop
  \/ WorkerDetectReturn
  \/ WorkerCheckAfter
  \/ WorkerPublish
  \/ OverlayRead
  \/ StopDetectionClear
  \/ WorkerStopBegin
  \/ WorkerStopJoin

WorkerSpec == WInit /\ [][WNext]_vars

\* ------------------------------------------------- the restart scenario
\* GStreamerPreviewDetect with every element found, run as in Spec, with
\* st_asked kept beside it.

RestartInit ==
  /\ Controllers
  /\ ctl = "PD"
  /\ pd_names = PDElems
  /\ NoScript
  /\ NoPanel
  /\ NoDetector
  /\ NoStream
  /\ NoWorker
  /\ NoAsk

\* a pipeline just built has not been asked anything; a call
\* set_detection_enabled(True) that schedules its work item has asked
AskNoted ==
  /\ st_asked' =
       IF pd_pipe = NoPipe /\ pd_pipe' # NoPipe THEN FALSE
       ELSE IF pd_ev'.op = SetOp(TRUE) /\ pd_ev'.sched /\ pd_idle' # pd_idle THEN TRUE
       ELSE st_asked
  /\ OffRestart

RestartNext ==
  \/ PDBuild /\ AskNoted
  \/ PDStartBegin /\ AskNoted
  \/ PDStartFinish /\ AskNoted
  \/ PDStop /\ AskNoted
  \/ PDSetDetectionEnabled /\ AskNoted
  \/ PDRunGlib /\ AskNoted
  \/ PDOnBusMessage /\ AskNoted
  \/ PDDispatchIdle /\ AskNoted

RestartSpec == RestartInit /\ [][RestartNext]_vars

\* ============================================================ properties
\* C1: whenever the pipeline is running, no warm-up callback is pending and no
\* start/stop or toggle call is in progress, the detection-display gate and the
\* inference gate are both open if detection mode is enabled and both closed
\* if it is disabled (for a graph in which every named element was found).
C1_GatesFollowDetectionMode ==
  /\ (ctl = "GC" /\ gc_names = GCElems /\ GCRunning /\ gc_timers = 0
        /\ gc_pcL = "idle" /\ gc_pcD = "idle")
       => /\ gc_pipe.detect_drop = ~gc_detection_enabled
          /\ gc_pipe.inference_drop = ~gc_detection_enabled
  /\ (ctl = "PD" /\ pd_names = PDElems /\ PDRunning /\ pd_idle = <<>>
        /\ pd_pcL = "idle")
       => /\ (pd_pipe.sel = "visible") = pd_detection_enabled
          /\ pd_pipe.apps_drop = ~pd_detection_enabled

\* C3: a bus ERROR/EOS callback that finds the controller RUNNING does not
\* run the teardown inline on the GLib thread but schedules it as a work
\* item, and no GLib thread ever attempts to join itself (the join that
\* raises RuntimeError).
C3_StopDeferredNoSelfJoin ==
  /\ (gc_ev.op \in {"ERROR", "EOS"} /\ gc_ev.found = "RUNNING")
       => gc_ev.sched /\ ~gc_ev.raised
  /\ (pd_ev.op \in {"ERROR", "EOS"} /\ pd_ev.found = "RUNNING")
       => pd_ev.sched /\ ~pd_ev.raised

\* C4: when start returns normally the graph is confirmed PLAYING and the
\* controller is running; when it fails the controller is idle with its
\* resources released: graph stopped, GLib thread not alive, running flag
\* clear, and nothing kept that makes the next build/start be rejected.
C4_StartRunsOrReleases ==
  /\ (gc_pipe # NoPipe /\ gc_ev.op = "start" /\ ~gc_ev.noop) =>
        IF gc_ev.raised
          THEN /\ ~gc_running
               /\ gc_pipe.st = "NULL"
               /\ ~IsAlive(gc_thread)
          ELSE GCPlaying
  /\ pd_ev.op = "start" =>
        IF pd_ev.raised
          THEN /\ ~pd_running
               /\ pd_pipe = NoPipe
               /\ ~IsAlive(pd_thread)
          ELSE PDPlaying

\* C5: a request to enable detection while the detection flag is already set
\* (or to disable it while it is already clear) changes nothing: the flag,
\* the gate/selector properties and the pending work items stay as they are,
\* nothing is written or scheduled, and the call is over at once.
C5_GateIdempotence ==
  [][/\ (gc_pcD = "idle" /\ gc_detection_enabled /\ gc_ev'.op = "start_detection")
          => /\ UNCHANGED <<gc_pipe, gc_detection_enabled, gc_timers, gc_pcD,
                            gc_detections>>
             /\ ~gc_ev'.wrote /\ ~gc_ev'.sched
     /\ (gc_pcD = "idle" /\ ~gc_detection_enabled /\ gc_ev'.op = "stop_detection")
          => /\ UNCHANGED <<gc_pipe, gc_detection_enabled, gc_timers, gc_pcD,
                            gc_detections>>
             /\ ~gc_ev'.wrote /\ ~gc_ev'.sched
     /\ pd_ev'.op = SetOp(pd_detection_enabled)
          => /\ UNCHANGED <<pd_pipe, pd_detection_enabled, pd_idle>>
             /\ ~pd_ev'.wrote /\ ~pd_ev'.sched
    ]_vars

\* C5 witness: start_detection was called on a running controller whose
\* detection flag was already set, and returned at the guard.
C5_Witness ==
  /\ gc_ev.op = "start_detection" /\ gc_ev.noop
  /\ gc_running /\ gc_detection_enabled /\ gc_pcD = "idle"

\* C6: while the pipeline is running (flag set, graph PLAYING) no step of a
\* caller thread writes a gate property: every such write happens in a step
\* of a GLib thread.
C6_GateWritesOnGlibThread ==
  /\ (GCPlaying /\ gc_ev.wrote) => gc_ev.thr # "caller"
  /\ (PDPlaying /\ pd_ev.wrote) => pd_ev.thr # "caller"

\* C7: stop called by the caller thread on a controller in RUNNING ends in
\* IDLE when it returns: the controller's graph is stopped (in NULL, or
\* released), the running flag is clear, the loop/thread references are
\* cleared and the loop was told to quit, so that its thread is not left
\* behind running.
C7_StopEndsIdle ==
  [][/\ (GCRunning /\ gc_ev'.op = "stop")
          => /\ gc_pipe'.st = "NULL"
             /\ ~gc_running' /\ gc_thread' = "none"
             /\ gc_orphans' = gc_orphans
             /\ gc_pcL' = "idle"
     /\ (PDRunning /\ pd_ev'.op = "stop")
          => /\ pd_pipe' = NoPipe
             /\ ~pd_running' /\ pd_thread' = "none" /\ ~pd_main_loop'
             /\ pd_orphans' = pd_orphans
    ]_vars

\* C9: build on a controller that already has a pipeline raises and leaves
\* the pipeline, its properties and the running state as they were; no
\* second graph comes into being.
C9_BuildRejectedWhenBuilt ==
  [][/\ (gc_pipe # NoPipe /\ gc_ev'.op = "build")
          => /\ gc_ev'.raised
             /\ UNCHANGED <<gc_pipe, gc_leaked, gc_running>>
     /\ (pd_pipe # NoPipe /\ pd_ev'.op = "build")
          => /\ pd_ev'.raised
             /\ UNCHANGED <<pd_pipe, pd_running, pd_main_loop>>
    ]_vars

\* the named elements the spec requires a built graph to expose
GCRequired == {"preview_sink", "detect_sink", "overlay", "inference_valve",
               "inference_sink"}

PDRequiredBySpec == {"preview_sink", "detect_sink", "overlay", "apps_valve",
                     "det_sink"}

\* C10: build succeeds only if the preview sink, the detection-display sink,
\* the overlay element, the inference valve and the inference sink were all
\* found; with any of them missing it raises.
C10_BuildNeedsAllElements ==
  /\ (gc_ev.op = "build" /\ ~gc_ev.raised) => GCRequired \subseteq gc_names
  /\ (pd_ev.op = "build" /\ ~pd_ev.raised) => PDRequiredBySpec \subseteq pd_names

\* C7 witness: the caller's stop_preview has just returned, it found the
\* controller RUNNING, and the controller is idle again.
C7_Witness ==
  /\ gc_ev.op = "stop" /\ gc_ev.found = "RUNNING"
  /\ gc_pipe.st = "NULL" /\ ~gc_running /\ gc_thread = "none"

\* C2: once a bus ERROR or EOS has been handled on a controller in RUNNING
\* (graph PLAYING, start returned, running flag set, loop running), the controller
\* reaches IDLE (running flag clear, loop and thread references released)
\* with no caller doing anything for it.
C2_ErrorLeadsToIdle ==
  /\ (gc_ev.op \in {"ERROR", "EOS"} /\ gc_ev.found = "RUNNING")
       ~> (~gc_running /\ gc_thread = "none")
  /\ (pd_ev.op \in {"ERROR", "EOS"} /\ pd_ev.found = "RUNNING")
       ~> (~pd_running /\ pd_thread = "none" /\ ~pd_main_loop)

\* C8: in the script of two cycles, the state noted after each call of the
\* second cycle equals the state noted after the same call of the first.
C8_SecondCycleSameAsFirst ==
  \A i \in 1..Len(cy_obs) :
    i > CycleLen => cy_obs[i] = cy_obs[i - CycleLen]

\* C11: warm-up policy.  Whenever start_preview returns with the graph
\* PLAYING the detection-display valve is open; the delayed callback closes
\* that valve exactly when the detection flag is not set and otherwise
\* changes nothing; every successful start arms one callback and every
\* firing consumes one.
C11_WarmUpPolicy ==
  [][/\ (gc_ev'.op = "start" /\ gc_ev'.sched /\ "detect_valve" \in GCHandles)
          => ~gc_pipe'.detect_drop
     /\ (gc_ev'.op = "start" /\ gc_ev'.sched) => gc_timers' = gc_timers + 1
     /\ gc_ev'.op = "warmup"
          => /\ gc_timers' = gc_timers - 1
             /\ IF gc_detection_enabled \/ "detect_valve" \notin GCHandles
                  THEN UNCHANGED gc_pipe
                  ELSE gc_pipe' = [gc_pipe EXCEPT !.detect_drop = TRUE]
    ]_vars

\* C14: the panel reflects the controller.  Whenever no handler of the panel
\* is in progress: "Stop Preview" and an enabled detection button are shown
\* only while the controller is running with its graph PLAYING, and "Stop
\* Detection" or the Detection Mode status only while detection is enabled;
\* so after an automatic stop the panel is back at "Start Preview" with the
\* detection button disabled.
C14_PanelReflectsController ==
  UIReady =>
    /\ (ui_preview = "Stop Preview" \/ ui_detect_enabled) => GCPlaying
    /\ (ui_detect = "Stop Detection" \/ ui_status = "Detection Mode")
         => gc_detection_enabled

\* C12: enabling detection before start has completed has no effect.  A
\* start_detection that finds the controller without a PLAYING graph, or in
\* the middle of start_preview, returns at its guard; and a scheduled
\* _apply(True) writes a selector/valve property or sets the detection flag
\* only when the graph is PLAYING and start has returned.
C12_NoEffectBeforeRunning ==
  [][/\ (gc_ev'.op = "start_detection" /\ ~(GCPlaying /\ gc_pcL = "idle"))
          => gc_ev'.noop
     /\ (pd_ev'.op = ApplyOp(TRUE)
           /\ (pd_ev'.wrote \/ pd_detection_enabled' # pd_detection_enabled))
          => (PDPlaying /\ pd_pcL = "idle")
    ]_vars

\* C13: a WARNING or STATE_CHANGED bus message changes no control variable:
\* flags, gate states, pipeline, loop and thread references and pending work
\* items (no stop is scheduled) are after the handler what they were before.
C13_NoticesChangeNothing ==
  [][/\ gc_ev'.op \in {"WARNING", "STATE_CHANGED"}
          => UNCHANGED <<gc_names, gc_pipe, gc_leaked, gc_thread, gc_orphans,
                         gc_running, gc_detection_enabled, gc_detections,
                         gc_timers, gc_pcL, gc_pcD>>
     /\ pd_ev'.op \in {"WARNING", "STATE_CHANGED"}
          => UNCHANGED <<pd_names, pd_pipe, pd_main_loop, pd_thread, pd_orphans,
                         pd_running, pd_detection_enabled, pd_idle, pd_pcL>>
    ]_vars

\* C13 witness: a WARNING has just been handled while the graph is PLAYING
\* with detection enabled.
C13_Witness ==
  gc_ev.op = "WARNING" /\ GCPlaying /\ gc_detection_enabled

\* C15: the pipeline handle is destroyed on stop.  After a caller's stop that
\* found the controller RUNNING, the controller holds no pipeline (hence no
\* bus watch and no element handle), so that the next start works on a fresh
\* graph.
C15_StopDestroysPipeline ==
  [][/\ (gc_ev'.op = "stop" /\ gc_ev'.found = "RUNNING") => gc_pipe' = NoPipe
     /\ (pd_ev'.op = "stop" /\ pd_ev'.found = "RUNNING") => pd_pipe' = NoPipe
    ]_vars

\* C16: the overlay draw hook draws nothing on a frame for which detection is
\* disabled when the callback runs (it returns at its guard), the warm-up
\* window included; and the hook is attached by a build that finds the
\* overlay and stays attached to that pipeline whatever is toggled.
C16_DrawHookInertWhenDisabled ==
  [][/\ (gc_ev'.op = "overlay_draw" /\ ~gc_detection_enabled) => gc_ev'.noop
     /\ (gc_ev'.op = "build" /\ ~gc_ev'.raised)
          => gc_pipe'.hook = ("overlay" \in gc_names)
     /\ (gc_pipe # NoPipe /\ gc_pipe.hook /\ gc_ev'.op # "build")
          => (gc_pipe' # NoPipe /\ gc_pipe'.hook)
    ]_vars

\* C16 witness: a frame has just passed the hook during the warm-up window of
\* a running preview with detection disabled, and nothing was drawn.
C16_Witness ==
  /\ gc_ev.op = "overlay_draw" /\ gc_ev.noop
  /\ GCPlaying /\ ~gc_detection_enabled /\ gc_timers > 0

\* the row of the last iteration was appended, or was skipped
PPKept == pp_out' = Append(pp_out, Detection(pp_row'))

PPSkipped == pp_out' = pp_out

\* C17: confidence filter with inclusive boundary.  A row whose class id is
\* in 0 .. num_classes-1 and whose box is not degenerate is skipped when its
\* confidence is below the threshold and emitted, with that confidence, when
\* its confidence equals or exceeds the threshold.
C17_ConfidenceFilterInclusive ==
  [][(/\ pp_row'.cls >= 0 /\ pp_row'.cls < 2 * NumClasses
      /\ pp_row'.x2 > pp_row'.x1 /\ pp_row'.y2 > pp_row'.y1)
       => IF pp_row'.conf < pp_thr THEN PPSkipped ELSE PPKept
    ]_vars

\* C17 witness: a row with confidence exactly at the threshold was emitted.
C17_Witness ==
  /\ pp_n = 1 /\ pp_row.conf = pp_thr
  /\ pp_out = <<Detection(pp_row)>>

\* C18: degenerate box rejection.  A row with x2 <= x1 or y2 <= y1 is skipped
\* whatever its confidence and class id, and every emitted detection has
\* w > 0 and h > 0.
C18_DegenerateBoxRejected ==
  [][/\ (pp_row'.x2 <= pp_row'.x1 \/ pp_row'.y2 <= pp_row'.y1) => PPSkipped
     /\ \A i \in 1..Len(pp_out') : pp_out'[i].w > 0 /\ pp_out'[i].h > 0
    ]_vars

\* C18 witness: a row of zero width with full confidence and a valid class
\* was iterated and nothing was emitted.
C18_Witness ==
  /\ pp_n = 1 /\ pp_row.x2 = pp_row.x1 /\ pp_row.y2 > pp_row.y1
  /\ pp_row.conf > pp_thr /\ pp_row.cls = 0
  /\ pp_out = <<>>

\* C19: every emitted detection has 0 <= class_id < num_classes, and a row
\* whose class id is negative or >= num_classes is skipped.
C19_ClassIdInRange ==
  [][/\ \A i \in 1..Len(pp_out') :
          pp_out'[i].class_id >= 0 /\ pp_out'[i].class_id < NumClasses
     /\ (pp_row'.cls < 0 \/ pp_row'.cls >= 2 * NumClasses) => PPSkipped
    ]_vars

\* C20: bounded latency queues.  Whatever the consumers do, no queue element
\* between the tee and a sink, the queues behind the output selector
\* included, holds more than one frame, and the tee is never blocked.
C20_QueuesHoldOneFrame ==
  /\ ~q_blocked
  /\ \A q \in Queues(ctl) : Len(q_buf[q]) <= 1

\* C21: whiteboard freshness.  Whatever the writer is doing, a read of the
\* slot yields the empty set or the whole DetectionSet of the most recently
\* completed publish, never part of a set.
C21_ReadEmptyOrLastPublished ==
  [][w_read' # w_read => w_read' = <<>> \/ w_read' = w_last]_vars

\* C21 witness: a set of two detections was read while the worker was
\* about to publish a different set.
C21_Witness ==
  /\ Len(w_read) = 2 /\ w_read = w_last
  /\ w_pc = "publish" /\ Rescaled(w_local) # w_read /\ Len(w_local) = 2

C23_RescaleTruncates ==
  [][w_last' # w_last =>
       /\ Len(w_slot') = Len(w_local)
       /\ \A i \in 1..Len(w_local) :
            LET b == w_local[i]
                p == w_slot'[i]
            IN  /\ p.x * InferenceWidth <= b.x * DisplayWidth
                /\ b.x * DisplayWidth < (p.x + 1) * InferenceWidth
                /\ p.w * InferenceWidth <= b.w * DisplayWidth
                /\ b.w * DisplayWidth < (p.w + 1) * InferenceWidth
                /\ p.y * InferenceHeight <= b.y * DisplayHeight
                /\ b.y * DisplayHeight < (p.y + 1) * InferenceHeight
                /\ p.h * InferenceHeight <= b.h * DisplayHeight
                /\ b.h * DisplayHeight < (p.h + 1) * InferenceHeight
                /\ b = [x |-> 100, y |-> 50, w |-> 80, h |-> 40]
                     => p = [x |-> 153, y |-> 57, w |-> 123, h |-> 46]
    ]_vars

\* C23 witness: the box {100, 50, 80, 40} has been published.
C23_Witness ==
  /\ w_pc = "top" /\ w_slot = w_last /\ Len(w_slot) > 0 /\ Len(w_local) > 0
  /\ w_local[1] = [x |-> 100, y |-> 50, w |-> 80, h |-> 40]
  /\ w_slot[1] = [x |-> 153, y |-> 57, w |-> 123, h |-> 46]

\* the detection flag once the pending _apply items have all run
PDFinalEnabled(idle, flag) ==
  LET applies == {i \in 1..Len(idle) : idle[i][1] = "apply"}
  IN  IF applies = {} THEN flag
      ELSE idle[CHOOSE i \in applies : \A j \in applies : j <= i][2]

\* C24: GStreamerPreviewDetect, pipeline running with every element found
\* and no stop pending: after a call set_detection_enabled(e), the state that
\* results once every scheduled work item has run has the detection flag
\* equal to e; and a work item that runs leaves flag, selector target and
\* inference valve at its own argument.
C24_LastToggleWins ==
  [][(/\ pd_names = PDElems /\ PDRunning
      /\ (\A i \in 1..Len(pd_idle') : pd_idle'[i][1] = "apply"))
      => /\ \A e \in BOOLEAN :
              pd_ev'.op = SetOp(e) => PDFinalEnabled(pd_idle', pd_detection_enabled') = e
         /\ \A e \in BOOLEAN :
              pd_ev'.op = ApplyOp(e) /\ pd_ev' # pd_ev =>
                /\ pd_detection_enabled' = e
                /\ pd_pipe'.sel = (IF e THEN "visible" ELSE "hidden")
                /\ pd_pipe'.apps_drop = ~e
    ]_vars

\* C25: GStreamerController with every element found: whenever
\* start_detection and the warm-up callback have both completed (no call in
\* progress, no timer pending) with detection mode enabled and the pipeline
\* running, the detection-display valve is open.
C25_ValveOpenAfterWarmUpRace ==
  (/\ ctl = "GC" /\ gc_names = GCElems
   /\ GCRunning /\ gc_detection_enabled
   /\ gc_pcD = "idle" /\ gc_timers = 0)
    => ~gc_pipe.detect_drop

\* C26: GStreamerPreviewDetect: a started pipeline (running, served by its
\* own GLib thread only) stays with detection disabled, the selector on the
\* hidden sink and the inference valve closed as long as no enable request
\* has been made since it was built; a work item scheduled before a stop
\* does nothing to a pipeline built later.
C26_StaleToggleHasNoEffect ==
  (PDRunning /\ pd_orphans = 0 /\ ~st_asked)
    => /\ ~pd_detection_enabled
       /\ pd_pipe.sel = "hidden"
       /\ pd_pipe.apps_drop

\* C27: stop_detection called while detection mode is enabled closes the
\* detection-display valve and the inference valve (those it has a handle
\* of), empties the detection list and then clears the detection flag; it
\* leaves the running flag, the GLib thread and its loop, the pipeline
\* state and with it the preview branch, and the pending timers unchanged.
C27_StopDetectionFrame ==
  [][/\ (gc_pcD = "idle" /\ gc_pcD' = "stop_detection_flag") =>
          /\ gc_detection_enabled
          /\ "detect_valve" \in GCHandles => gc_pipe'.detect_drop
          /\ "inference_valve" \in GCHandles => gc_pipe'.inference_drop
          /\ gc_pipe # NoPipe => gc_pipe'.st = gc_pipe.st
          /\ gc_detections' = <<>>
          /\ UNCHANGED <<gc_running, gc_thread, gc_orphans, gc_leaked, gc_timers,
                         gc_pcL>>
     /\ (gc_pcD = "stop_detection_flag" /\ gc_pcD' = "idle") =>
          /\ ~gc_detection_enabled'
          /\ UNCHANGED <<gc_pipe, gc_detections, gc_running, gc_thread, gc_orphans,
                         gc_leaked, gc_timers, gc_pcL>>
    ]_vars

\* C27 witness: stop_detection has completed on a running pipeline: both
\* valves closed, flag cleared, loop still running.
C27_Witness ==
  /\ gc_ev.op = "stop_detection_flag" /\ GCRunning /\ gc_names = GCElems
  /\ gc_pipe.detect_drop /\ gc_pipe.inference_drop /\ ~gc_detection_enabled

\* C28: in every IDLE state after a stop (not running, the pipeline that was
\* started back in NULL or gone, no GLib thread of the controller left, no
\* call in progress) the detection-mode flag is cleared.
C28_IdleHasDetectionOff ==
  /\ (ctl = "GC" /\ gc_names = GCElems /\ ~gc_running
      /\ gc_pipe # NoPipe /\ gc_pipe.used /\ gc_pipe.st = "NULL"
      /\ gc_thread = "none" /\ gc_orphans = 0
      /\ gc_pcL = "idle" /\ gc_pcD = "idle")
       => ~gc_detection_enabled
  /\ (ctl = "PD" /\ pd_names = PDElems /\ ~pd_running
      /\ pd_thread = "none" /\ pd_orphans = 0 /\ pd_pcL = "idle")
       => ~pd_detection_enabled

\* C29: at any time at most one GLib loop thread started by the controller
\* is alive, whatever sequence of starts, stops and bus events came before.
C29_AtMostOneLoopThread ==
  /\ AliveCount(gc_thread, gc_orphans) <= 1
  /\ AliveCount(pd_thread, pd_orphans) <= 1

\* C30: a build_pipeline that raises leaves the controller as it was: no
\* pipeline reference, bus watch or loop is retained from the failed attempt,
\* so that a later build is not rejected because a pipeline exists.
C30_FailedBuildChangesNothing ==
  [][/\ (gc_ev'.op = "build" /\ gc_ev'.raised /\ gc_pcL = "idle" /\ gc_ev' # gc_ev)
          => UNCHANGED <<gc_pipe, gc_leaked, gc_thread, gc_running>>
     /\ (pd_ev'.op = "build" /\ pd_ev'.raised /\ pd_pcL = "idle" /\ pd_ev' # pd_ev)
          => UNCHANGED <<pd_pipe, pd_main_loop, pd_thread, pd_running>>
    ]_vars

\* a row passes the three filters
RowAccepted(r, thr) ==
  /\ r.conf >= thr
  /\ IntOf(r.cls) >= 0 /\ IntOf(r.cls) < NumClasses
  /\ r.x2 > r.x1 /\ r.y2 > r.y1

\* the accepted rows of a tensor, in their order, each as many times as it
\* occurs
AcceptedRows(rows, thr) == SelectSeq(rows, LAMBDA r : RowAccepted(r, thr))

GCHeld ==
  <<gc_names, gc_pipe, gc_leaked, gc_thread, gc_orphans, gc_running,
    gc_detection_enabled, gc_detections, gc_timers, gc_pcL, gc_pcD>>

PDHeld ==
  <<pd_names, pd_pipe, pd_main_loop, pd_thread, pd_orphans, pd_running,
    pd_detection_enabled, pd_idle, pd_pcL>>

\* C32 as stated: a stop called on a controller that is not running (no
\* start in progress) raises nothing and changes no state.
C32_StopWhenNotRunningIsNoOp ==
  [][/\ (gc_ev'.op = "stop" /\ gc_pcL = "idle" /\ ~gc_running)
          => UNCHANGED GCHeld /\ ~gc_ev'.raised
     /\ (pd_ev'.op = "stop" /\ pd_pcL = "idle" /\ ~pd_running)
          => UNCHANGED PDHeld /\ ~pd_ev'.raised
    ]_vars

\* C32 amended: stop_preview called while the controller is not running or
\* has no pipeline, and GStreamerPreviewDetect.stop called while it has no
\* pipeline, raise nothing and change no state; a stop that tore down and
\* returned leaves the controller in that condition, so the stop after it
\* changes nothing.
C32_StopWithNothingToStopIsNoOp ==
  [][/\ (gc_ev'.op = "stop" /\ gc_pcL = "idle" /\ (~gc_running \/ gc_pipe = NoPipe))
          => UNCHANGED GCHeld /\ ~gc_ev'.raised /\ gc_ev'.noop
     /\ (gc_ev'.op = "stop" /\ ~gc_ev'.noop /\ ~gc_ev'.raised) => ~gc_running'
     /\ (pd_ev'.op = "stop" /\ pd_pcL = "idle" /\ pd_pipe = NoPipe)
          => UNCHANGED PDHeld /\ ~pd_ev'.raised /\ pd_ev'.noop
     /\ pd_ev'.op = "stop" => pd_pipe' = NoPipe
    ]_vars

\* C32 witness: stop_preview has returned early on a controller that was
\* run and stopped before and still holds its pipeline.
C32_Witness ==
  /\ gc_ev.op = "stop" /\ gc_ev.noop
  /\ ~gc_running /\ gc_pipe # NoPipe /\ gc_pipe.used /\ gc_thread = "none"
====
